---- MODULE Spec2Model ----
(***************************************************************************)
(* Voxel-to-block conversion of MinecraftModel (scan2schem.py and its      *)
(* exporters): connected-component pruning, the block grid, the palette    *)
(* lookup and the legacy .schematic writer.                                *)
(*                                                                         *)
(* numpy arrays are functions on 0 .. n-1 (the code's own indices, so that *)
(* the sentinel -1 keeps its meaning); Python lists that are only appended *)
(* to and read in order (q, members, the returned rows) are sequences.     *)
(***************************************************************************)
EXTENDS Integers, Sequences, FiniteSets

\* ------------------------------------------------------------------ bounds
\* largest voxel coordinate along x of the voxelizer's raw output
MaxCoord == 1
\* largest number of voxels the voxelizer hands to the pruning step
MaxVoxels == 3
\* largest --min_component tried (a positive integer)
MaxMinComponent == 3
\* longest block name, in tokens, handed to _name_to_legacy
MaxTokens == 3
\* largest side of a grid handed to write_schematic
MaxSide == 2
\* longest palette
MaxPalette == 3
\* longest argument list of a direct call of build_block_grid
MaxArgs == 2

VARIABLES
    pc,             \* position in main / voxelize_mesh
    out,            \* args.out
    ci,             \* (N,3) integer voxel coordinates, rows 0 .. N-1
    colors,         \* (N,3) per-voxel sample colours, rows 0 .. N-1
    grid_shape,     \* (W, H, D)
    min_component,  \* args.min_component
    occ,            \* occupancy grid: cell -> row of ci, or -1
    label,          \* component label per row, or -1
    comp_id,        \* next component label
    i,              \* row of the outer loop of the flood fill
    q,              \* deque of the running breadth-first search
    members,        \* rows labelled by the running search
    enq,            \* history: number of cells put on q so far
    ret,            \* what voxelize_mesh handed back (or the exit it raised)
    block_grid,     \* result of build_block_grid
    exported,       \* the writer main called, with the grid it was given
    call,           \* a direct call of one function: its name and arguments
    result          \* what that call returned

\* the state of one run of main
run == <<pc, out, ci, colors, grid_shape, min_component, occ, label, comp_id,
         i, q, members, enq, ret, block_grid, exported>>

vars == <<run, call, result>>

\* ----------------------------------------------------------------- helpers
None == "None"

\* a record variable that no statement has assigned yet
Unset == [unset |-> TRUE]

\* a grid variable that no statement has assigned yet
NoGrid == <<>>

Min(a, b) == IF a <= b THEN a ELSE b

\* number of rows of a numpy array modelled as a function on 0 .. n-1
Rows(arr) == Cardinality(DOMAIN arr)

\* the numpy array holding the elements of sequence s
Arr(s) == [k \in 0 .. Len(s) - 1 |-> s[k + 1]]

MaxOf(S) == CHOOSE m \in S : \A n \in S : n <= m
MinOf(S) == CHOOSE m \in S : \A n \in S : m <= n

\* ------------------------------------------------------- voxelizer output
\* cells the voxelizer may report before the coordinates are made 0-based
Box == (0 .. MaxCoord) \X (0 .. 1) \X (0 .. 1)

\* lists of n distinct cells, in any enumeration order
RECURSIVE DistinctSeqs(_)
DistinctSeqs(n) ==
    IF n = 0 THEN {<<>>}
    ELSE {Append(p[1], p[2]) :
            p \in {r \in DistinctSeqs(n - 1) \X Box :
                     \A k \in 1 .. Len(r[1]) : r[1][k] # r[2]}}

Points(most) == UNION {DistinctSeqs(n) : n \in 1 .. most}

\* ci = floor(coords_f - coords_f.min(axis=0)): every axis starts at 0
Integerize(pts) ==
    LET lo(ax) == MinOf({pts[k][ax] : k \in 1 .. Len(pts)})
    IN  Arr([k \in 1 .. Len(pts) |->
                <<pts[k][1] - lo(1), pts[k][2] - lo(2), pts[k][3] - lo(3)>>])

\* (W, H, D) = per-axis maximum + 1
GridShape(c) ==
    LET hi(ax) == MaxOf({c[k][ax] : k \in DOMAIN c})
    IN  <<hi(1) + 1, hi(2) + 1, hi(3) + 1>>

Cells(shape) ==
    (0 .. shape[1] - 1) \X (0 .. shape[2] - 1) \X (0 .. shape[3] - 1)

\* the colours of the mesh's vertices, and the mid-gray of an uncoloured mesh
Gray == <<190, 190, 190>>
VertexColours == << <<255, 255, 255>>, <<0, 0, 0>>, <<255, 0, 0>>, <<0, 0, 255>>, Gray >>

\* colors = vcols[nn_idx]: the colour of the vertex nearest to each voxel
SampleColours(n) ==
    [k \in 0 .. n - 1 |-> VertexColours[(k % Len(VertexColours)) + 1]]

\* occ = -ones((W,H,D)); for i, (x,y,z) in enumerate(ci): occ[x,y,z] = i
RECURSIVE FillOcc(_, _, _)
FillOcc(o, c, k) ==
    IF k = Rows(c) THEN o
    ELSE FillOcc([o EXCEPT ![c[k]] = k], c, k + 1)

BuildOcc(c, shape) == FillOcc([cell \in Cells(shape) |-> -1], c, 0)

\* ------------------------------------------------------------ BlockPalette
\* skimage.color.rgb2lab on the colours of the model, rounded to integers
\* (D65, sRGB); the argument is an RGB triple with channels in 0 .. 255
rgb2lab(c) ==
    CASE c = <<255, 255, 255>> -> <<100, 0, 0>>
      [] c = <<0, 0, 0>>       -> <<0, 0, 0>>
      [] c = <<255, 0, 0>>     -> <<53, 80, 67>>
      [] c = <<0, 0, 255>>     -> <<32, 79, -108>>
      [] c = <<190, 190, 190>> -> <<77, 0, 0>>
      [] c = <<128, 128, 128>> -> <<54, 0, 0>>

\* np.clip(rgb / 255.0, 0, 1), kept on the 0 .. 255 scale
clip(c) == [k \in 1 .. 3 |-> IF c[k] < 0 THEN 0 ELSE IF c[k] > 255 THEN 255 ELSE c[k]]

\* np.sum((self.lab - lab) ** 2, axis = 1)
SqDist(pal, lab) ==
    [k \in 1 .. Len(pal) |->
        LET e == rgb2lab(pal[k].rgb)
        IN  (e[1] - lab[1]) * (e[1] - lab[1]) + (e[2] - lab[2]) * (e[2] - lab[2])
            + (e[3] - lab[3]) * (e[3] - lab[3])]

\* a scan in which a later entry also replaces the best when equal
RECURSIVE ArgminScanLast(_, _, _)
ArgminScanLast(d, best, k) ==
    IF k > Len(d) THEN best
    ELSE ArgminScanLast(d, IF d[k] <= d[best] THEN k ELSE best, k + 1)

\* np.argmin: one pass, a later entry replaces the best only when smaller
RECURSIVE ArgminScan(_, _, _)
ArgminScan(d, best, k) ==
    IF k > Len(d) THEN best
    ELSE ArgminScan(d, IF d[k] < d[best] THEN k ELSE best, k + 1)

argmin(d) == ArgminScan(d, 1, 2)

\* BlockPalette.nearest on the palette pal (a list of [name, rgb] entries)
nearest(pal, rgb) == pal[argmin(SqDist(pal, rgb2lab(clip(rgb))))].name

\* the palette file main reads by default
WoolConcrete ==
    << [name |-> "minecraft:white_wool",         rgb |-> <<255, 255, 255>>],
       [name |-> "minecraft:black_wool",         rgb |-> <<0, 0, 0>>],
       [name |-> "minecraft:red_wool",           rgb |-> <<255, 0, 0>>],
       [name |-> "minecraft:blue_concrete",      rgb |-> <<0, 0, 255>>],
       [name |-> "minecraft:gray_concrete",      rgb |-> <<128, 128, 128>>],
       [name |-> "minecraft:light_gray_wool",    rgb |-> <<190, 190, 190>>] >>

\* ---------------------------------------------------------- build_block_grid
\* for (x, y, z), col in zip(coords_i, colors): block_grid[x, y, z] = pal.nearest(col)
RECURSIVE FillGrid(_, _, _, _, _)
FillGrid(grid, coords_i, cols, pal, k) ==
    IF k > Min(Len(coords_i), Len(cols)) THEN grid
    ELSE FillGrid([grid EXCEPT ![coords_i[k]] = nearest(pal, cols[k])],
                  coords_i, cols, pal, k + 1)

build_block_grid(coords_i, cols, shape, pal) ==
    FillGrid([cell \in Cells(shape) |-> None], coords_i, cols, pal, 1)

\* ------------------------------------------------------------ voxelize_mesh
dirs == << <<1, 0, 0>>, <<-1, 0, 0>>, <<0, 1, 0>>, <<0, -1, 0>>, <<0, 0, 1>>, <<0, 0, -1>> >>

N == Rows(ci)

\* no run puts more cells on q than this; it only keeps the counter finite
EnqCap == 6 * MaxVoxels + 1

InGrid(c) ==
    /\ 0 <= c[1] /\ c[1] < grid_shape[1]
    /\ 0 <= c[2] /\ c[2] < grid_shape[2]
    /\ 0 <= c[3] /\ c[3] < grid_shape[3]

\* a search that takes no cell for visited
VisitedNever(lab, idx) == FALSE

\* label[idx] != -1 (line 130), and its negation at line 137
Visited(lab, idx) == lab[idx] # -1

\* the neighbours of cell the inner for loop appends, in the order of dirs
RECURSIVE Pushed(_, _, _)
Pushed(cell, lab, k) ==
    IF k > Len(dirs) THEN <<>>
    ELSE LET n == <<cell[1] + dirs[k][1], cell[2] + dirs[k][2], cell[3] + dirs[k][3]>>
         IN  (IF InGrid(n) /\ occ[n] # -1 /\ ~Visited(lab, occ[n]) THEN <<n>> ELSE <<>>)
             \o Pushed(cell, lab, k + 1)

\* a threshold that also prunes a component of exactly min_component rows
TooSmallOrEqual(found) == Len(found) <= min_component

\* len(members) < int(min_component)
TooSmall(found) == Len(found) < min_component

\* a counter that is never advanced
SameCompId(c) == c

\* comp_id += 1
NextCompId(c) == c + 1

\* rows of arr selected by the boolean mask keep, in row order: arr[keep]
RECURSIVE Masked(_, _, _)
Masked(arr, keep, k) ==
    IF k = Rows(arr) THEN <<>>
    ELSE (IF keep[k] THEN <<arr[k]>> ELSE <<>>) \o Masked(arr, keep, k + 1)

\* a test that never finds the mask empty
AnyAlways(keep) == TRUE

\* np.any(keep)
Any(keep) == \E r \in DOMAIN keep : keep[r]

\* the colours returned without the mask
AllColors(keep) == Masked(colors, [r \in DOMAIN keep |-> TRUE], 0)

\* colors[keep]
KeptColors(keep) == Masked(colors, keep, 0)

SeqToSet(s) == {s[k] : k \in 1 .. Len(s)}

\* line 122-124: a row that already carries a label is skipped
OuterSkip ==
    /\ pc = "outer" /\ i < N /\ label[i] # -1
    /\ i' = i + 1
    /\ UNCHANGED <<pc, out, ci, colors, grid_shape, min_component, occ, label,
                   comp_id, q, members, enq, ret, block_grid, exported, call, result>>

\* line 125-126: an unlabelled row seeds a search
OuterSeed ==
    /\ pc = "outer" /\ i < N /\ label[i] = -1
    /\ enq < EnqCap
    /\ q' = <<ci[i]>>
    /\ members' = <<>>
    /\ enq' = enq + 1
    /\ pc' = "bfs"
    /\ UNCHANGED <<out, ci, colors, grid_shape, min_component, occ, label,
                   comp_id, i, ret, block_grid, exported, call, result>>

\* line 127-138: one turn of the while loop
BfsPop ==
    /\ pc = "bfs" /\ q # <<>>
    /\ enq < EnqCap
    /\ LET cell == Head(q)
           idx  == occ[cell]
       IN  IF idx = -1 \/ Visited(label, idx)
           THEN /\ q' = Tail(q)
                /\ UNCHANGED <<label, members, enq>>
           ELSE LET lab  == [label EXCEPT ![idx] = comp_id]
                    more == Pushed(cell, lab, 1)
                IN  /\ label' = lab
                    /\ members' = Append(members, idx)
                    /\ q' = Tail(q) \o more
                    /\ enq' = enq + Len(more)
    /\ UNCHANGED <<pc, out, ci, colors, grid_shape, min_component, occ,
                   comp_id, i, ret, block_grid, exported, call, result>>

\* line 139-145: the search is over; a small component is erased
EndSearch ==
    /\ pc = "bfs" /\ q = <<>>
    /\ IF TooSmall(members)
       THEN /\ occ' = [cell \in DOMAIN occ |->
                         IF \E k \in 1 .. Len(members) : ci[members[k]] = cell
                         THEN -1 ELSE occ[cell]]
            /\ label' = [r \in DOMAIN label |->
                           IF r \in SeqToSet(members) THEN -1 ELSE label[r]]
            /\ UNCHANGED comp_id
       ELSE /\ comp_id' = NextCompId(comp_id)
            /\ UNCHANGED <<occ, label>>
    /\ i' = i + 1
    /\ pc' = "outer"
    /\ UNCHANGED <<out, ci, colors, grid_shape, min_component, q, members,
                   enq, ret, block_grid, exported, call, result>>

\* line 147-151: the mask, the exit when nothing is left, the return
Return ==
    /\ pc = "outer" /\ i = N
    /\ LET keep == [r \in DOMAIN label |-> label[r] # -1]
       IN  IF ~Any(keep)
           THEN /\ ret' = [raised  |-> "SystemExit",
                           message |-> "Nothing left after pruning; try lowering --min_component."]
                /\ pc' = "exit"
           ELSE /\ ret' = [coords |-> Masked(ci, keep, 0),
                           colors |-> KeptColors(keep),
                           shape  |-> grid_shape]
                /\ pc' = "voxelized"
    /\ UNCHANGED <<out, ci, colors, grid_shape, min_component, occ, label,
                   comp_id, i, q, members, enq, block_grid, exported, call, result>>

\* ---------------------------------------------------------------------- main
\* line 195
BuildGrid ==
    /\ pc = "voxelized"
    /\ block_grid' = build_block_grid(ret.coords, ret.colors, ret.shape, WoolConcrete)
    /\ pc' = "built"
    /\ UNCHANGED <<out, ci, colors, grid_shape, min_component, occ, label,
                   comp_id, i, q, members, enq, ret, exported, call, result>>

\* a writer chosen by the extension of the path
ExporterByExtension(path) ==
    IF path.ext = ".schematic" THEN "write_schematic"
    ELSE IF path.ext = ".litematic" THEN "export_litematic"
    ELSE "write_schem"

\* the writer main hands the grid to (line 199), whatever the path
Exporter(path) == "export_litematic"

\* line 198-205
Export ==
    /\ pc = "built"
    /\ exported' = [writer |-> Exporter(out), grid |-> block_grid, path |-> out,
                     name |-> out.stem]
    /\ pc' = "done"
    /\ UNCHANGED <<out, ci, colors, grid_shape, min_component, occ, label,
                   comp_id, i, q, members, enq, ret, block_grid, call, result>>

DefaultOut == [dir |-> "data/examples", stem |-> "scan", ext |-> ".litematic"]

\* the state at line 118: the voxelizer has run and occ is filled
InitWith(paths, most) ==
    /\ out \in paths
    /\ \E pts \in Points(most) :
          /\ ci = Integerize(pts)
          /\ colors = SampleColours(Len(pts))
    /\ grid_shape = GridShape(ci)
    /\ min_component \in 1 .. MaxMinComponent
    /\ occ = BuildOcc(ci, grid_shape)
    /\ label = [r \in DOMAIN ci |-> -1]
    /\ comp_id = 0
    /\ i = 0
    /\ q = <<>>
    /\ members = <<>>
    /\ enq = 0
    /\ ret = Unset
    /\ block_grid = NoGrid
    /\ exported = Unset
    /\ pc = "outer"
    /\ call = Unset
    /\ result = Unset

Init == InitWith({DefaultOut}, MaxVoxels)

Next ==
    \/ OuterSkip
    \/ OuterSeed
    \/ BfsPop
    \/ EndSearch
    \/ Return
    \/ BuildGrid
    \/ Export

Spec == Init /\ [][Next]_vars

\* the paths main is run with under SpecMain
OutPaths ==
    {DefaultOut,
     [dir |-> "out", stem |-> "scan", ext |-> ".schematic"],
     [dir |-> "out", stem |-> "scan", ext |-> ".schem"],
     [dir |-> "out", stem |-> "scan", ext |-> ""]}

InitMain == InitWith(OutPaths, 2)

SpecMain == InitMain /\ [][Next]_vars

\* the steps of the pruning loop
LoopStep == OuterSkip \/ OuterSeed \/ BfsPop \/ EndSearch

\* voxelize_mesh from line 118 to its return or exit
Voxelize == LoopStep \/ Return

\* one thread of control runs the loop: while a step of it can be taken, one is
FairSpec == Init /\ [][Voxelize]_vars /\ WF_vars(LoopStep)

\* ------------------------------------------------------ exporter_schematic
\* A block name handed to the exporter is a Python str, modelled as the
\* sequence of its characters so that replace and endswith act on it as they
\* do in Python; an unset cell (None) is the one-element sequence NoName.
NoName == <<None>>

S_minecraft == <<"m", "i", "n", "e", "c", "r", "a", "f", "t", ":">>
S_air == <<"a", "i", "r">>
S_stone == <<"s", "t", "o", "n", "e">>
S_wool == <<"_", "w", "o", "o", "l">>
S_concrete == <<"_", "c", "o", "n", "c", "r", "e", "t", "e">>
S_planks == <<"_", "p", "l", "a", "n", "k", "s">>
S_glass == <<"g", "l", "a", "s", "s">>
S_white == <<"w", "h", "i", "t", "e">>
S_orange == <<"o", "r", "a", "n", "g", "e">>
S_magenta == <<"m", "a", "g", "e", "n", "t", "a">>
S_light_blue == <<"l", "i", "g", "h", "t", "_", "b", "l", "u", "e">>
S_yellow == <<"y", "e", "l", "l", "o", "w">>
S_lime == <<"l", "i", "m", "e">>
S_pink == <<"p", "i", "n", "k">>
S_gray == <<"g", "r", "a", "y">>
S_light_gray == <<"l", "i", "g", "h", "t", "_", "g", "r", "a", "y">>
S_cyan == <<"c", "y", "a", "n">>
S_purple == <<"p", "u", "r", "p", "l", "e">>
S_blue == <<"b", "l", "u", "e">>
S_brown == <<"b", "r", "o", "w", "n">>
S_green == <<"g", "r", "e", "e", "n">>
S_red == <<"r", "e", "d">>
S_black == <<"b", "l", "a", "c", "k">>
S_oak == <<"o", "a", "k">>
S_spruce == <<"s", "p", "r", "u", "c", "e">>
S_birch == <<"b", "i", "r", "c", "h">>
S_jungle == <<"j", "u", "n", "g", "l", "e">>
S_acacia == <<"a", "c", "a", "c", "i", "a">>
S_dark_oak == <<"d", "a", "r", "k", "_", "o", "a", "k">>

\* the dict COLOR_INDEX, as its (key, value) items
COLOR_INDEX ==
    << <<S_white, 0>>,
       <<S_orange, 1>>,
       <<S_magenta, 2>>,
       <<S_light_blue, 3>>,
       <<S_yellow, 4>>,
       <<S_lime, 5>>,
       <<S_pink, 6>>,
       <<S_gray, 7>>,
       <<S_light_gray, 8>>,
       <<S_cyan, 9>>,
       <<S_purple, 10>>,
       <<S_blue, 11>>,
       <<S_brown, 12>>,
       <<S_green, 13>>,
       <<S_red, 14>>,
       <<S_black, 15>> >>

\* the dict species of _name_to_legacy
species ==
    << <<S_oak, 0>>,
       <<S_spruce, 1>>,
       <<S_birch, 2>>,
       <<S_jungle, 3>>,
       <<S_acacia, 4>>,
       <<S_dark_oak, 5>> >>

\* d.get(key, default)
Get(d, key, default) ==
    IF \E k \in 1 .. Len(d) : d[k][1] = key
    THEN d[CHOOSE k \in 1 .. Len(d) : d[k][1] = key][2]
    ELSE default

\* str.replace(old, ""): every occurrence of old, left to right, is dropped
RECURSIVE Remove(_, _)
Remove(str, old) ==
    IF Len(str) < Len(old) THEN str
    ELSE IF SubSeq(str, 1, Len(old)) = old
         THEN Remove(SubSeq(str, Len(old) + 1, Len(str)), old)
         ELSE <<Head(str)>> \o Remove(Tail(str), old)

\* str.endswith(suffix)
EndsWith(str, suffix) ==
    /\ Len(str) >= Len(suffix)
    /\ SubSeq(str, Len(str) - Len(suffix) + 1, Len(str)) = suffix

\* a variant that sends a name it does not know to stone
name_to_legacy_strict(block_name) ==
    IF block_name = NoName THEN <<0, 0>>
    ELSE LET b == Remove(block_name, S_minecraft)
         IN  IF b = S_air THEN <<0, 0>>
             ELSE IF EndsWith(b, S_wool)
                       /\ \E k \in 1 .. Len(COLOR_INDEX) : COLOR_INDEX[k][1] = Remove(b, S_wool)
                  THEN <<35, Get(COLOR_INDEX, Remove(b, S_wool), 0)>>
             ELSE IF EndsWith(b, S_concrete)
                       /\ \E k \in 1 .. Len(COLOR_INDEX) : COLOR_INDEX[k][1] = Remove(b, S_concrete)
                  THEN <<251, Get(COLOR_INDEX, Remove(b, S_concrete), 0)>>
             ELSE IF EndsWith(b, S_planks)
                       /\ \E k \in 1 .. Len(species) : species[k][1] = Remove(b, S_planks)
                  THEN <<5, Get(species, Remove(b, S_planks), 0)>>
             ELSE <<1, 0>>

\* _name_to_legacy
name_to_legacy(block_name) ==
    IF block_name = NoName THEN <<0, 0>>
    ELSE LET b == Remove(block_name, S_minecraft)
         IN  IF b = S_air THEN <<0, 0>>
             ELSE IF EndsWith(b, S_wool)
                  THEN <<35, Get(COLOR_INDEX, Remove(b, S_wool), 0)>>
             ELSE IF EndsWith(b, S_concrete)
                  THEN <<251, Get(COLOR_INDEX, Remove(b, S_concrete), 0)>>
             ELSE IF b = S_stone THEN <<1, 0>>
             ELSE IF EndsWith(b, S_planks)
                  THEN <<5, Get(species, Remove(b, S_planks), 0)>>
             ELSE <<1, 0>>

\* the row-major index of (x, y, z)
idx_row_major(shape, x, y, z) == x * (shape[2] * shape[3]) + y * shape[3] + z

\* def idx(x, y, z): return y * (W * D) + z * W + x
idx(shape, x, y, z) == y * (shape[1] * shape[3]) + z * shape[1] + x

\* the cells in the order of the loops: for x ... for y ... for z
RECURSIVE Flatten(_)
Flatten(ss) == IF ss = <<>> THEN <<>> ELSE Head(ss) \o Flatten(Tail(ss))

LoopOrder(shape) ==
    Flatten([x \in 1 .. shape[1] |->
        Flatten([y \in 1 .. shape[2] |->
            [z \in 1 .. shape[3] |-> <<x - 1, y - 1, z - 1>>]])])

\* the two byte arrays after the first k cells of the loop
RECURSIVE FillArrays(_, _, _, _, _)
FillArrays(blocks, data, block_ids_3d, shape, cells) ==
    IF cells = <<>> THEN <<blocks, data>>
    ELSE LET c    == Head(cells)
             code == name_to_legacy(block_ids_3d[c])
             at   == idx(shape, c[1], c[2], c[3])
         IN  FillArrays([blocks EXCEPT ![at] = code[1] % 256],
                        [data EXCEPT ![at] = code[2] % 16],
                        block_ids_3d, shape, Tail(cells))

\* write_schematic: the compound handed to nbtlib
write_schematic(block_ids_3d, shape) ==
    LET total  == shape[1] * shape[2] * shape[3]
        zeros  == [k \in 0 .. total - 1 |-> 0]
        arrays == FillArrays(zeros, zeros, block_ids_3d, shape, LoopOrder(shape))
    IN  [Width |-> shape[1], Height |-> shape[2], Length |-> shape[3],
         Materials |-> "Alpha", Blocks |-> arrays[1], Data |-> arrays[2],
         Entities |-> <<>>, TileEntities |-> <<>>,
         WEOffsetX |-> 0, WEOffsetY |-> 0, WEOffsetZ |-> 0]


\* ------------------------------------------------- direct calls of one function
\* no run of main is under way
NoRun ==
    /\ out = None /\ ci = None /\ colors = None /\ grid_shape = None
    /\ min_component = None /\ occ = None /\ label = None /\ comp_id = None
    /\ i = None /\ q = None /\ members = None /\ enq = None /\ ret = None
    /\ block_grid = None /\ exported = None

rest == <<out, ci, colors, grid_shape, min_component, occ, label, comp_id,
          i, q, members, enq, ret, block_grid, exported>>

\* --- _name_to_legacy
Tokens == {S_minecraft, S_air, S_stone, S_wool, S_concrete, S_planks,
           S_red, S_light_gray, S_oak, S_dark_oak, S_glass}

RECURSIVE TokenStrings(_)
TokenStrings(n) ==
    IF n = 0 THEN {<<>>}
    ELSE {t \o u : t \in TokenStrings(n - 1), u \in Tokens}

Prefixes == {<<>>, S_minecraft}

\* the names the lookup is written for, each with its legacy code
Known ==
    {<<p \o S_air, <<0, 0>> >> : p \in Prefixes}
    \cup {<<p \o S_stone, <<1, 0>> >> : p \in Prefixes}
    \cup {<<p \o COLOR_INDEX[k][1] \o S_wool, <<35, COLOR_INDEX[k][2]>> >> :
            p \in Prefixes, k \in 1 .. Len(COLOR_INDEX)}
    \cup {<<p \o COLOR_INDEX[k][1] \o S_concrete, <<251, COLOR_INDEX[k][2]>> >> :
            p \in Prefixes, k \in 1 .. Len(COLOR_INDEX)}
    \cup {<<p \o species[k][1] \o S_planks, <<5, species[k][2]>> >> :
            p \in Prefixes, k \in 1 .. Len(species)}
    \cup {<<NoName, <<0, 0>> >>}

Identifiers ==
    {e[1] : e \in Known} \cup UNION {TokenStrings(n) : n \in 1 .. MaxTokens}

InitName ==
    /\ pc = "call" /\ NoRun /\ result = <<>>
    /\ \E name \in Identifiers : call = [fn |-> "_name_to_legacy", block_name |-> name]

CallNameToLegacy ==
    /\ pc = "call" /\ call.fn = "_name_to_legacy"
    /\ result' = name_to_legacy(call.block_name)
    /\ pc' = "returned"
    /\ UNCHANGED <<rest, call>>

SpecName == InitName /\ [][CallNameToLegacy]_vars

\* --- write_schematic
BlockNames ==
    << NoName,
       S_minecraft \o S_air,
       S_minecraft \o S_stone,
       S_minecraft \o S_white \o S_wool,
       S_minecraft \o S_orange \o S_wool,
       S_minecraft \o S_magenta \o S_wool,
       S_minecraft \o S_light_blue \o S_wool,
       S_minecraft \o S_yellow \o S_wool,
       S_minecraft \o S_lime \o S_wool,
       S_minecraft \o S_pink \o S_wool,
       S_minecraft \o S_gray \o S_wool,
       S_minecraft \o S_light_gray \o S_wool,
       S_minecraft \o S_cyan \o S_wool,
       S_minecraft \o S_purple \o S_wool,
       S_minecraft \o S_blue \o S_wool,
       S_minecraft \o S_brown \o S_wool,
       S_minecraft \o S_green \o S_wool,
       S_minecraft \o S_red \o S_wool,
       S_minecraft \o S_black \o S_wool,
       S_minecraft \o S_white \o S_concrete,
       S_minecraft \o S_orange \o S_concrete,
       S_minecraft \o S_magenta \o S_concrete,
       S_minecraft \o S_light_blue \o S_concrete,
       S_minecraft \o S_yellow \o S_concrete,
       S_minecraft \o S_lime \o S_concrete,
       S_minecraft \o S_pink \o S_concrete,
       S_minecraft \o S_gray \o S_concrete,
       S_minecraft \o S_light_gray \o S_concrete,
       S_minecraft \o S_cyan \o S_concrete,
       S_minecraft \o S_purple \o S_concrete,
       S_minecraft \o S_blue \o S_concrete,
       S_minecraft \o S_brown \o S_concrete,
       S_minecraft \o S_green \o S_concrete,
       S_minecraft \o S_red \o S_concrete,
       S_minecraft \o S_black \o S_concrete,
       S_minecraft \o S_oak \o S_planks,
       S_minecraft \o S_spruce \o S_planks,
       S_minecraft \o S_birch \o S_planks,
       S_minecraft \o S_jungle \o S_planks,
       S_minecraft \o S_acacia \o S_planks,
       S_minecraft \o S_dark_oak \o S_planks,
       S_minecraft \o S_glass >>

Shapes == (1 .. MaxSide) \X (1 .. MaxSide) \X (1 .. MaxSide)

\* a grid whose cells run through BlockNames from the given offset
GridFrom(shape, offset) ==
    [c \in Cells(shape) |->
        BlockNames[((c[1] * (shape[2] * shape[3]) + c[2] * shape[3] + c[3] + offset)
                        % Len(BlockNames)) + 1]]

InitSchematic ==
    /\ pc = "call" /\ NoRun /\ result = Unset
    /\ \E shape \in Shapes, offset \in 0 .. Len(BlockNames) - 1 :
          call = [fn |-> "write_schematic", shape |-> shape,
                  block_ids_3d |-> GridFrom(shape, offset)]

CallWriteSchematic ==
    /\ pc = "call" /\ call.fn = "write_schematic"
    /\ result' = write_schematic(call.block_ids_3d, call.shape)
    /\ pc' = "returned"
    /\ UNCHANGED <<rest, call>>

SpecSchematic == InitSchematic /\ [][CallWriteSchematic]_vars

\* --- BlockPalette.nearest
PaletteEntries ==
    {[name |-> "white_wool",     rgb |-> <<255, 255, 255>>],
     [name |-> "white_concrete", rgb |-> <<255, 255, 255>>],
     [name |-> "black_wool",     rgb |-> <<0, 0, 0>>],
     [name |-> "red_wool",       rgb |-> <<255, 0, 0>>],
     [name |-> "gray_wool",      rgb |-> <<128, 128, 128>>]}

RECURSIVE Lists(_, _)
Lists(S, n) ==
    IF n = 0 THEN {<<>>}
    ELSE Lists(S, n - 1) \cup
         {Append(l, e) : l \in {m \in Lists(S, n - 1) : Len(m) = n - 1}, e \in S}

Palettes == Lists(PaletteEntries, MaxPalette) \ {<<>>}

\* colours asked for: those of the table, and some with channels out of range
Queries ==
    {<<255, 255, 255>>, <<0, 0, 0>>, <<255, 0, 0>>, <<0, 0, 255>>, Gray,
     <<128, 128, 128>>, <<300, 260, 255>>, <<-20, 0, -1>>, <<256, -3, 0>>}

InitNearest ==
    /\ pc = "call" /\ NoRun /\ result = None
    /\ \E pal \in Palettes, rgb \in Queries :
          call = [fn |-> "nearest", pal |-> pal, rgb |-> rgb]

CallNearest ==
    /\ pc = "call" /\ call.fn = "nearest"
    /\ result' = nearest(call.pal, call.rgb)
    /\ pc' = "returned"
    /\ UNCHANGED <<rest, call>>

SpecNearest == InitNearest /\ [][CallNearest]_vars

\* --- build_block_grid
ArgShape == <<2, 2, 1>>

InitGrid ==
    /\ pc = "call" /\ NoRun /\ result = Unset
    /\ \E coords_i \in Lists(Cells(ArgShape), MaxArgs),
          cols \in Lists({VertexColours[k] : k \in 1 .. Len(VertexColours)}, MaxArgs) :
          call = [fn |-> "build_block_grid", coords_i |-> coords_i, colors |-> cols,
                  grid_shape |-> ArgShape, palette |-> WoolConcrete]

CallBuildBlockGrid ==
    /\ pc = "call" /\ call.fn = "build_block_grid"
    /\ result' = [returned |-> build_block_grid(call.coords_i, call.colors,
                                                call.grid_shape, call.palette)]
    /\ pc' = "returned"
    /\ UNCHANGED <<rest, call>>

SpecGrid == InitGrid /\ [][CallBuildBlockGrid]_vars


\* ===================================================================== claims

\* ---------------------------------------------------- connected components
Abs(n) == IF n < 0 THEN -n ELSE n

\* 6-adjacency: one step along exactly one axis
Adjacent(a, b) == Abs(a[1] - b[1]) + Abs(a[2] - b[2]) + Abs(a[3] - b[3]) = 1

RECURSIVE Grow(_)
Grow(S) ==
    LET T == S \cup {r \in DOMAIN ci : \E s \in S : Adjacent(ci[r], ci[s])}
    IN  IF T = S THEN S ELSE Grow(T)

\* the rows of the input voxels connected to row r through occupied cells
Component(r) == Grow({r})

\* the labelling loop has just finished (line 147 is next)
Labelled == pc = "outer" /\ i = N

\* the coordinates the pruning step keeps
Kept == {ci[r] : r \in {k \in DOMAIN ci : label[k] # -1}}

Large == {ci[r] : r \in {k \in DOMAIN ci : Cardinality(Component(k)) >= min_component}}

\* C1: for every threshold t >= 1 the coordinates kept by the pruning step are
\* exactly those whose 6-adjacency component in the input has at least t
\* members, and the coordinates handed back are those.
C1_PruneKeepsLargeComponents ==
    /\ (Labelled /\ min_component >= 1) => Kept = Large
    /\ (pc = "voxelized" /\ min_component >= 1) => SeqToSet(ret.coords) = Large

\* a run that kept one component and pruned another
C1_Witness ==
    /\ pc = "voxelized" /\ min_component >= 2
    /\ Kept # {} /\ Kept # {ci[r] : r \in DOMAIN ci}

\* C2: when every component has fewer than min_component members the pruning
\* ends in the error exit and hands back no coordinates, colours or shape.
C2_AllPrunedRaises ==
    (/\ pc \notin {"outer", "bfs"}
     /\ \A r \in DOMAIN ci : Cardinality(Component(r)) < min_component) =>
        /\ pc = "exit"
        /\ DOMAIN ret = {"raised", "message"}
        /\ ret.raised = "SystemExit"
        /\ block_grid = NoGrid /\ exported = Unset

\* two voxels that do not touch, min_component = 2: the exit is raised
C2_Witness ==
    /\ pc = "exit" /\ N = 2 /\ min_component = 2
    /\ ~Adjacent(ci[0], ci[1])

\* C8 as stated: after the loop two voxels carry the same label value exactly
\* when they are connected, the value of removed voxels included.
C8_SameLabelIffConnected ==
    Labelled =>
        \A r, s \in DOMAIN ci : (label[r] = label[s]) <=> (s \in Component(r))

\* C8 amended: among the voxels that survive pruning, the same label exactly
\* when connected; a voxel carries -1 exactly when its component was pruned.
C8_SameLabelIffConnectedAmongKept ==
    Labelled =>
        /\ \A r, s \in DOMAIN ci :
              (label[r] # -1 /\ label[s] # -1) =>
                  ((label[r] = label[s]) <=> (s \in Component(r)))
        /\ \A r \in DOMAIN ci :
              (label[r] = -1) <=> (Cardinality(Component(r)) < min_component)

\* two surviving components, which got different labels
C8_Witness ==
    /\ Labelled
    /\ \E r, s \in DOMAIN ci :
          label[r] # -1 /\ label[s] # -1 /\ label[r] # label[s]

\* row r was labelled and its component then erased
Erased(r) == label[r] = -1 /\ occ[ci[r]] # r

\* the cells a step puts on the queue
Enqueued == {q'[k] : k \in (Len(q') - (enq' - enq) + 1) .. Len(q')}

\* C9: the pruning loop terminates: the end of the outer loop is reached after
\* one pass over the input (rows of pruned components included), a cell is put
\* on the queue only while it carries no label, a row is labelled at most
\* once, and the number of cells put on the queue never exceeds 6 times the
\* number of occupied cells.
C9_FloodFillTerminates ==
    /\ <>Labelled
    /\ [](enq <= 6 * N /\ i <= N)
    /\ [][/\ i' \in {i, i + 1}
          /\ \A c \in Enqueued : occ'[c] = -1 \/ label'[occ'[c]] = -1
          /\ \A r \in DOMAIN ci :
                /\ label[r] # -1 => label'[r] \in {label[r], -1}
                /\ Erased(r) => Erased(r)']_<<pc, i, q, members, enq, label, occ>>

\* a run ended although a later row of a pruned component seeded a search again
C9_Witness ==
    /\ pc \in {"exit", "voxelized"}
    /\ enq > Cardinality({Component(r) : r \in DOMAIN ci})
    /\ \E r \in DOMAIN ci : label[r] = -1

\* C10: the k-th returned coordinate and colour come from the same input row,
\* in input order; every surviving voxel's cell holds nearest(its own colour),
\* every other cell is None, and the shape is the bounding box of the input.
C10_CoordsAndColoursAligned ==
    pc \in {"voxelized", "built"} =>
        /\ Len(ret.coords) = Len(ret.colors)
        /\ \A k \in 1 .. Len(ret.coords) :
              \E r \in DOMAIN ci :
                 /\ label[r] # -1
                 /\ Cardinality({t \in DOMAIN ci : t < r /\ label[t] # -1}) = k - 1
                 /\ ret.coords[k] = ci[r]
                 /\ ret.colors[k] = colors[r]
        /\ ret.shape = GridShape(ci)
        /\ \A k \in 1 .. Len(ret.coords) : ret.coords[k] \in Cells(ret.shape)
        /\ pc = "built" =>
              /\ DOMAIN block_grid = Cells(ret.shape)
              /\ \A cell \in Cells(ret.shape) :
                    IF \E r \in DOMAIN ci : label[r] # -1 /\ ci[r] = cell
                    THEN \A r \in DOMAIN ci :
                            (label[r] # -1 /\ ci[r] = cell) =>
                                block_grid[cell] = nearest(WoolConcrete, colors[r])
                    ELSE block_grid[cell] = None

\* the first input row was pruned and a later one, of another colour, survives
C10_Witness ==
    /\ pc = "built"
    /\ label[0] = -1
    /\ \E r \in DOMAIN ci : label[r] # -1 /\ colors[r] # colors[0]
    /\ \E cell \in Cells(ret.shape) : block_grid[cell] # None

\* C7 as stated: the extension of the output path selects the writer.
C7_ExtensionSelectsWriter ==
    pc = "done" =>
        exported.writer = (IF out.ext = ".schematic" THEN "write_schematic"
                           ELSE "write_schem")

\* C7 amended: main hands the grid to export_litematic whatever the extension.
C7_AlwaysLitematic ==
    pc = "done" =>
        /\ exported.writer = "export_litematic"
        /\ exported.grid = block_grid
        /\ exported.path = out

\* a run asked for a .schematic file and wrote with export_litematic
C7_Witness ==
    pc = "done" /\ out.ext = ".schematic" /\ exported.writer = "export_litematic"

\* C3: Blocks and Data hold, at y*(W*D) + z*W + x, the legacy code of cell
\* (x, y, z); the index maps the cells one-to-one onto 0 .. W*H*D - 1.
C3_LegacyArraysIndexedYZX ==
    pc = "returned" =>
        LET W == call.shape[1]
            H == call.shape[2]
            D == call.shape[3]
            at(c) == c[2] * (W * D) + c[3] * W + c[1]
        IN  /\ result.Width = W /\ result.Height = H /\ result.Length = D
            /\ DOMAIN result.Blocks = 0 .. W * H * D - 1
            /\ DOMAIN result.Data = 0 .. W * H * D - 1
            /\ \A c \in Cells(call.shape) :
                  /\ result.Blocks[at(c)] = name_to_legacy(call.block_ids_3d[c])[1]
                  /\ result.Data[at(c)] = name_to_legacy(call.block_ids_3d[c])[2]
            /\ \A c, e \in Cells(call.shape) : at(c) = at(e) => c = e
            /\ {at(c) : c \in Cells(call.shape)} = 0 .. W * H * D - 1

\* a written grid with at least two cells along every axis, no two cells of
\* which have the same legacy code
C3_Witness ==
    /\ pc = "returned"
    /\ result.Width >= 2 /\ result.Height >= 2 /\ result.Length >= 2
    /\ \A k, m \in DOMAIN result.Blocks :
          (result.Blocks[k] = result.Blocks[m] /\ result.Data[k] = result.Data[m]) => k = m

\* the names the claim calls recognized
Recognized(name) == \E e \in Known : e[1] = name

\* C4 as stated: a recognized name maps to its code, every other name to (1, 0).
C4_UnrecognizedIsStone ==
    pc = "returned" =>
        IF Recognized(call.block_name)
        THEN \A e \in Known : e[1] = call.block_name => result = e[2]
        ELSE result = <<1, 0>>

\* C4 amended: a recognized name maps to its code; a name that, with every
\* "minecraft:" dropped, is not air and ends in none of _wool, _concrete and
\* _planks maps to (1, 0); a name that ends in one of these maps to that
\* suffix's id (35, 251, 5), with metadata 0 unless what is left of it after
\* dropping the suffix text is a key of the table.
C4_SuffixDecidesId ==
    pc = "returned" =>
        /\ \A e \in Known : e[1] = call.block_name => result = e[2]
        /\ call.block_name # NoName =>
              LET b    == Remove(call.block_name, S_minecraft)
                  keys(d) == {d[k][1] : k \in 1 .. Len(d)}
              IN  /\ (/\ b # S_air /\ ~EndsWith(b, S_wool)
                      /\ ~EndsWith(b, S_concrete) /\ ~EndsWith(b, S_planks))
                        => result = <<1, 0>>
                  /\ EndsWith(b, S_wool) =>
                        /\ result[1] = 35
                        /\ Remove(b, S_wool) \notin keys(COLOR_INDEX) => result[2] = 0
                  /\ EndsWith(b, S_concrete) =>
                        /\ result[1] = 251
                        /\ Remove(b, S_concrete) \notin keys(COLOR_INDEX) => result[2] = 0
                  /\ EndsWith(b, S_planks) =>
                        /\ result[1] = 5
                        /\ Remove(b, S_planks) \notin keys(species) => result[2] = 0

\* glass_wool is no name of the table and still becomes wool
C4_Witness ==
    /\ pc = "returned"
    /\ call.block_name = S_minecraft \o S_glass \o S_wool
    /\ result = <<35, 0>>

\* C5: nearest returns the name of the first entry, in load order, among the
\* entries at minimum distance from the (clipped) colour asked for; the name
\* is one of the palette's.
C5_NearestIsFirstMinimum ==
    pc = "returned" =>
        LET d     == SqDist(call.pal, rgb2lab(clip(call.rgb)))
            least == MinOf({d[k] : k \in 1 .. Len(d)})
            first == MinOf({k \in 1 .. Len(d) : d[k] = least})
        IN  /\ result = call.pal[first].name
            /\ result \in {call.pal[k].name : k \in 1 .. Len(call.pal)}
            /\ \A k \in 1 .. Len(d) : d[first] <= d[k]
            /\ \A k \in 1 .. first - 1 : d[k] > d[first]

\* two entries of different names tie for the minimum and the earlier one wins
C5_Witness ==
    /\ pc = "returned"
    /\ LET d == SqDist(call.pal, rgb2lab(clip(call.rgb)))
       IN  \E j, k \in 1 .. Len(d) :
              /\ j < k /\ d[j] = d[k]
              /\ \A m \in 1 .. Len(d) : d[j] <= d[m]
              /\ call.pal[j].name # call.pal[k].name
              /\ result = call.pal[j].name

\* C6: a call with lists of different lengths ends in InputMismatchError and
\* returns no grid.
C6_MismatchFailsFast ==
    (pc = "returned" /\ Len(call.coords_i) # Len(call.colors)) =>
        /\ DOMAIN result = {"raised"}
        /\ result.raised = "InputMismatchError"

====
